---- MODULE Spec2Model ----
(***************************************************************************)
(* Model of the light-transport core of doubleailes/ray-tracing:           *)
(*   - ray_color          (src/src/main.rs)        recursive estimator     *)
(*   - main               (src/src/main.rs)        row-parallel driver     *)
(*   - HitRecord          (src/src/hittable.rs)    set_face_normal         *)
(*   - BlinnPhong, CookTorrance, Disney            material scattering     *)
(*                                                                         *)
(* Numbers.  f32 values are modelled exactly on finite grids:              *)
(*   - a unit vector is an integer triple of Euclidean length UnitLen,     *)
(*     so a dot product of two unit vectors is an integer in units of      *)
(*     1/(UnitLen*UnitLen); every vector the materials meet is on it;      *)
(*   - a scalar used by the materials is an integer in units of 1e-4       *)
(*     (ScalarOne is 1.0), so the epsilon 1e-4 of the source is 1;         *)
(*   - a Color is a record [r, g, b, den] standing for (r,g,b)/den, with   *)
(*     exact products and sums (no rounding).                              *)
(***************************************************************************)
EXTENDS Integers, Sequences, FiniteSets, TLC

VARIABLES
    \* ---- ray_color (src/src/main.rs:33-57) ----
    stack,        \* call stack of ray_color: one frame per active call
    pc,           \* "call": top frame starts its body; "ret": top frame has
                  \* returned retval; "done": the outermost call has returned
    retval,       \* value returned by the call that returned last
    hitQueries,   \* number of world.hit calls so far
    scatterCalls, \* number of Material::scatter calls so far
    randDraws,    \* number of random numbers drawn so far
    path,         \* history: the attenuations of the accepted scatters, in order
    ending,       \* history: how the path ended, [kind, dir] ("none" while running)
    \* ---- set_face_normal and the materials (pure functions) ----
    fn,           \* which function the current record is about
    inp,          \* its inputs
    out,          \* its outputs ("none" before the call)
    \* ---- main (src/src/main.rs:144-167) ----
    row,          \* j of the scanline being rendered
    phase,        \* "map": the parallel map runs; "write": the sequential loop
    task,         \* task[i]: "idle" | "running" | "done" (closure for index i)
    acc,          \* acc[i]: the closure's local pixel_color
    nsamp,        \* nsamp[i]: samples accumulated by closure i
    samples,      \* samples[i]: the ray_color values closure i received
    finishOrder,  \* order in which the closures finished
    collected,    \* pixel_colors: the Vec collected from the map
    wcol,         \* next column of the sequential loop
    buffer,       \* buffer[<<i, j>>]: the stored pixel
    setCount,     \* setCount[<<i, j>>]: number of set_pixel calls on (i, j)
    actor         \* who took the last step: a closure's index, or "main"

rcVars == <<stack, pc, retval, hitQueries, scatterCalls, randDraws, path, ending>>
fnVars == <<fn, inp, out>>
mainVars == <<row, phase, task, acc, nsamp, samples, finishOrder, collected, wcol,
              buffer, setCount, actor>>
vars == <<rcVars, fnVars, mainVars>>

(***************************************************************************)
(* Bounds of the model                                                     *)
(***************************************************************************)
MaxDepthBound == 3     \* largest depth budget handed to ray_color

ImageWidth == 3        \* IMAGE_WIDTH of the model

ImageHeight == 2       \* IMAGE_HEIGHT of the model

SamplesPerPixel == 2   \* SAMPLES_PER_PIXEL of the model

NumThreads == 2        \* threads of the rayon pool

(***************************************************************************)
(* Vectors                                                                 *)
(***************************************************************************)
UnitLen == 5 * 5 * 5   \* length of a unit vector on the grid

ScalarOne == 10 * 1000 \* the scalar 1.0, in units of 1e-4

\* the epsilon 1e-4 of the materials
EPS == 1

dot(u, v) == u[1] * v[1] + u[2] * v[2] + u[3] * v[3]

neg(v) == <<0 - v[1], 0 - v[2], 0 - v[3]>>

add(u, v) == <<u[1] + v[1], u[2] + v[2], u[3] + v[3]>>

scale(v, k) == <<v[1] * k, v[2] * k, v[3] * k>>

length(v) == CHOOSE n \in 0..(2 * UnitLen) : n * n = dot(v, v)

\* v / v.length(), on the grid of length UnitLen
unit_vector(v) ==
    <<(v[1] * UnitLen) \div length(v),
      (v[2] * UnitLen) \div length(v),
      (v[3] * UnitLen) \div length(v)>>

\* v - 2 * dot(v, n) * n, for unit n
reflect(v, n) ==
    <<v[1] - (2 * dot(v, n) * n[1]) \div (UnitLen * UnitLen),
      v[2] - (2 * dot(v, n) * n[2]) \div (UnitLen * UnitLen),
      v[3] - (2 * dot(v, n) * n[3]) \div (UnitLen * UnitLen)>>

\* the dot product of two unit vectors as a scalar (units of 1e-4)
sdot(u, v) == (dot(u, v) * ScalarOne) \div (UnitLen * UnitLen)

smax(x, y) == IF x >= y THEN x ELSE y

clamp(x, lo, hi) == IF x < lo THEN lo ELSE IF x > hi THEN hi ELSE x

\* the integer vectors of length 5, and the unit vectors they give
Grid5 ==
    {g \in ((0 - 5)..5) \X ((0 - 5)..5) \X ((0 - 5)..5) : dot(g, g) = 25}

UnitVecs == {scale(g, 25) : g \in Grid5}

(***************************************************************************)
(* Colors                                                                  *)
(***************************************************************************)
ColorNew(r, g, b, d) == [r |-> r, g |-> g, b |-> b, den |-> d]

\* Color::new(0.0, 0.0, 0.0)
ColorZero == ColorNew(0, 0, 0, 1)

\* component-wise product  a * c
ColorMul(a, c) == ColorNew(a.r * c.r, a.g * c.g, a.b * c.b, a.den * c.den)

\* a + c  (over the common denominator when the two already share one)
ColorAdd(a, c) ==
    IF a.den = c.den
    THEN ColorNew(a.r + c.r, a.g + c.g, a.b + c.b, a.den)
    ELSE ColorNew(a.r * c.den + c.r * a.den, a.g * c.den + c.g * a.den,
                  a.b * c.den + c.b * a.den, a.den * c.den)

\* a / k
ColorDiv(a, k) == ColorNew(a.r, a.g, a.b, a.den * k)

\* equality of the values two records stand for
ColorEq(a, c) ==
    /\ a.r * c.den = c.r * a.den
    /\ a.g * c.den = c.g * a.den
    /\ a.b * c.den = c.b * a.den

(***************************************************************************)
(* ray_color  (src/src/main.rs:33-57)                                      *)
(*                                                                         *)
(* The scene and the materials are collaborators: what world.hit returns,  *)
(* whether scatter accepts, the attenuation, the scattered ray and the     *)
(* number of random numbers a scatter call draws are chosen freely.        *)
(***************************************************************************)
\* directions of the rays (not normalized)
Dirs == {<<0, 1, 0>>, <<0, -2, 0>>, <<3, 4, 0>>, <<4, 0, -3>>}

\* attenuations the materials of random_scene return: albedo (0.5,0.5,0.5) of
\* the ground and (0.4,0.2,0.1) of material2
Attens == {ColorNew(5, 5, 5, 10), ColorNew(4, 2, 1, 10)}

\* random numbers one scatter call draws: none (BlinnPhong) or two (a sampled lobe)
DrawChoices == {0, 2}

Frame(d, depth, hq, sc, rd) ==
    [dir |-> d, depth |-> depth, att |-> ColorZero, ev |-> "none",
     hq0 |-> hq, sc0 |-> sc, rd0 |-> rd]

Top == stack[Len(stack)]

SetTop(f) == [stack EXCEPT ![Len(stack)] = f]

DepthExhaustedOff(depth) == depth < 0

\* if depth <= 0
DepthExhausted(depth) == depth <= 0

ray_backgroundRaw(dir) ==
    LET tn == dir[2] + UnitLen
        td == 2 * UnitLen
    IN  ColorAdd(ColorMul(ColorNew(td - tn, td - tn, td - tn, td), ColorNew(10, 10, 10, 10)),
                 ColorMul(ColorNew(tn, tn, tn, td), ColorNew(5, 7, 10, 10)))

\* unit_direction = unit_vector(r.direction()); t = 0.5 * (unit_direction.y() + 1.0);
\* (1.0 - t) * Color::new(1.0, 1.0, 1.0) + t * Color::new(0.5, 0.7, 1.0)
\* t is the fraction tn/td
ray_background(dir) ==
    LET unit_direction == unit_vector(dir)
        tn == unit_direction[2] + UnitLen
        td == 2 * UnitLen
    IN  ColorAdd(ColorMul(ColorNew(td - tn, td - tn, td - tn, td), ColorNew(10, 10, 10, 10)),
                 ColorMul(ColorNew(tn, tn, tn, td), ColorNew(5, 7, 10, 10)))

ScatterReturnDropped(attenuation, inner) == inner

\* return attenuation * ray_color(&scattered, world, depth - 1)
ScatterReturn(attenuation, inner) == ColorMul(attenuation, inner)

NextDepthSame(depth) == depth

\* the depth argument of the recursive call
NextDepth(depth) == depth - 1

\* depth <= 0: return Color::new(0.0, 0.0, 0.0)
RcCutoff ==
    /\ pc = "call"
    /\ DepthExhausted(Top.depth)
    /\ retval' = ColorZero
    /\ stack' = SetTop([Top EXCEPT !.ev = "cutoff"])
    /\ ending' = [kind |-> "cutoff", dir |-> Top.dir]
    /\ pc' = "ret"
    /\ UNCHANGED <<hitQueries, scatterCalls, randDraws, path>>

\* world.hit returns false: the background gradient
RcMiss ==
    /\ pc = "call"
    /\ ~DepthExhausted(Top.depth)
    /\ hitQueries' = hitQueries + 1
    /\ retval' = ray_background(Top.dir)
    /\ stack' = SetTop([Top EXCEPT !.ev = "miss"])
    /\ ending' = [kind |-> "miss", dir |-> Top.dir]
    /\ pc' = "ret"
    /\ UNCHANGED <<scatterCalls, randDraws, path>>

\* world.hit returns true and scatter returns false
RcAbsorb ==
    /\ pc = "call"
    /\ ~DepthExhausted(Top.depth)
    /\ \E k \in DrawChoices :
          randDraws' = randDraws + k
    /\ hitQueries' = hitQueries + 1
    /\ scatterCalls' = scatterCalls + 1
    /\ retval' = ColorZero
    /\ stack' = SetTop([Top EXCEPT !.ev = "absorb"])
    /\ ending' = [kind |-> "absorb", dir |-> Top.dir]
    /\ pc' = "ret"
    /\ UNCHANGED path

\* world.hit returns true and scatter returns true: the recursive call
RcScatter ==
    /\ pc = "call"
    /\ ~DepthExhausted(Top.depth)
    /\ Len(stack) <= MaxDepthBound + 1
    /\ \E a \in Attens, d \in Dirs, k \in DrawChoices :
          /\ randDraws' = randDraws + k
          /\ stack' = Append(SetTop([Top EXCEPT !.att = a, !.ev = "scatter"]),
                             Frame(d, NextDepth(Top.depth), hitQueries + 1,
                                   scatterCalls + 1, randDraws + k))
          /\ path' = Append(path, a)
    /\ hitQueries' = hitQueries + 1
    /\ scatterCalls' = scatterCalls + 1
    /\ UNCHANGED <<pc, retval, ending>>

\* a recursive call returns to its caller, which multiplies and returns
RcReturn ==
    /\ pc = "ret"
    /\ Len(stack) > 1
    /\ retval' = ScatterReturn(stack[Len(stack) - 1].att, retval)
    /\ stack' = SubSeq(stack, 1, Len(stack) - 1)
    /\ UNCHANGED <<pc, hitQueries, scatterCalls, randDraws, path, ending>>

\* the outermost call returns to main
RcDone ==
    /\ pc = "ret"
    /\ Len(stack) = 1
    /\ pc' = "done"
    /\ UNCHANGED <<stack, retval, hitQueries, scatterCalls, randDraws, path, ending>>

(***************************************************************************)
(* HitRecord::set_face_normal  (src/src/hittable.rs:20-27)                 *)
(***************************************************************************)
set_face_normalNoFlip(direction, outward_normal) ==
    [front_face |-> dot(direction, outward_normal) < 0,
     normal |-> outward_normal]

set_face_normal(direction, outward_normal) ==
    LET front_face == dot(direction, outward_normal) < 0
    IN  [front_face |-> front_face,
         normal |-> IF front_face THEN outward_normal ELSE neg(outward_normal)]

(***************************************************************************)
(* Materials.  Roughness and metallic are in hundredths (0.05 is 5).       *)
(* A pdf is kept multiplied by 2*PI, in scalar units, so that cosine/PI    *)
(* is the integer 2*cosine.                                                *)
(***************************************************************************)
\* CookTorrance::new: roughness.clamp(0.05, 1.0), metallic.clamp(0.0, 1.0)
CookTorrance_new(roughness, metallic) ==
    [kind |-> "CookTorrance",
     roughness |-> clamp(roughness, 5, 100),
     metallic |-> clamp(metallic, 0, 100)]

\* Disney::new stores its arguments as they are
Disney_new(roughness, metallic) ==
    [kind |-> "Disney", roughness |-> roughness, metallic |-> metallic]

\* pdf.max(1e-4): the returned pdf is 1e-4 when floored, raw otherwise
\* (2*PI*1e-4 lies between 6 and 7 scalar units)
PdfFloor(pdf2pi) ==
    [raw |-> pdf2pi, floored |-> pdf2pi < 7]

Rejected == [accepted |-> FALSE]

\* BlinnPhong::scatter: the scattered ray always points to the light
BlinnPhong_scatter(normal, r_in, light_dir) ==
    LET diff == smax(sdot(normal, light_dir), 0)
    IN  [accepted |-> TRUE, l |-> light_dir, diff |-> diff]

\* CookTorrance::scatter; h is what sample_vndf_ggx drew
CookTorrance_scatter(self, n, r_in, h) ==
    LET v == neg(unit_vector(r_in))
        l == reflect(neg(v), h)
        n_dot_v == smax(sdot(n, v), EPS)
        n_dot_l == smax(sdot(n, l), EPS)
        n_dot_h == smax(sdot(n, h), EPS)
    IN  IF dot(l, n) <= 0 THEN Rejected
        ELSE [accepted |-> TRUE, l |-> l,
              ggxRoughness |-> self.roughness,
              denomTerms |-> {n_dot_v, n_dot_l, n_dot_h},
              divisors |-> {4 * n_dot_v * n_dot_l + EPS * ScalarOne}]

\* let sample_specular = random() < 0.5   (u in scalar units)
SampleSpecular(u) == 2 * u < ScalarOne

\* balance_heuristic(pdf_a, pdf_b): the weight pdf_a / (pdf_a + pdf_b)
balance_heuristic(pdf_a, pdf_b) == [num |-> pdf_a, den |-> pdf_a + pdf_b]

\* CookTorrance::scatter_importance; u is the lobe draw, h what sample_vndf_ggx
\* drew, lcos what align_to_normal(random_cosine_direction(), n) gave, pdf_ggx
\* what pdf_vndf_ggx returned (times 2*PI)
CookTorrance_scatter_importance(self, n, r_in, u, h, lcos, pdf_ggx) ==
    LET v == neg(unit_vector(r_in))
        sample_specular == SampleSpecular(u)
        l == IF sample_specular THEN reflect(neg(v), h) ELSE lcos
        hh == IF sample_specular THEN h ELSE unit_vector(add(v, l))
        pdf_cosine == 2 * smax(sdot(n, l), EPS)
        n_dot_h == smax(sdot(n, hh), EPS)
        pdf_specular == pdf_ggx \div 2
        pdf_diffuse == pdf_cosine \div 2
        weight == balance_heuristic(pdf_specular, pdf_diffuse)
        final_pdf == pdf_specular + pdf_diffuse
    IN  IF dot(l, n) <= 0 THEN Rejected
        ELSE [accepted |-> TRUE, l |-> l,
              lobe |-> IF sample_specular THEN "specular" ELSE "diffuse",
              weight |-> weight,
              pdf |-> PdfFloor(final_pdf),
              ggxRoughness |-> self.roughness,
              denomTerms |-> {n_dot_h, sdot(n, v), sdot(n, l)},
              divisors |-> {4 * sdot(n, v) * sdot(n, l) + EPS * ScalarOne}]

\* Disney::scatter_importance: always the cosine sample, always Some
Disney_scatter_importance(self, n, r_in, lcos) ==
    LET v == neg(unit_vector(r_in))
        l == lcos
        h == unit_vector(add(v, l))
        n_dot_l == smax(sdot(n, l), 0)
        n_dot_v == smax(sdot(n, v), 0)
        n_dot_h == smax(sdot(n, h), 0)
        v_dot_h == smax(sdot(v, h), 0)
        pdf == 2 * n_dot_l
    IN  [accepted |-> TRUE, l |-> l,
         lobe |-> "diffuse",
         weight |-> [num |-> 1, den |-> 1],
         pdf |-> PdfFloor(pdf),
         ggxRoughness |-> self.roughness,
         denomTerms |-> {n_dot_h, n_dot_v, n_dot_l, v_dot_h},
         divisors |-> {v_dot_h, 4 * n_dot_v * n_dot_l + EPS * ScalarOne}]

\* Disney::scatter: only importance sampling is supported
Disney_scatter == Rejected

(***************************************************************************)
(* The calls of set_face_normal, the constructors and the scatter          *)
(* functions: one record per call, inputs drawn at Init.                   *)
(***************************************************************************)
SmallVecs ==
    {g \in ((0 - 1)..1) \X ((0 - 1)..1) \X ((0 - 1)..1) : dot(g, g) > 0}

RoughnessArgs == {0 - 50, 0, 3, 5, 50, 100, 150}

MetallicArgs == {0 - 50, 0, 50, 100, 150}

\* rec.normal of the hit
Normals == {<<0, 0, 125>>, <<0, 75, 100>>}

\* r_in.direction() of a ray that hit a surface of normal n: set_face_normal
\* leaves dot(direction, normal) <= 0
RayDirs(n) == {d \in Grid5 : dot(n, d) <= 0}

\* what align_to_normal(random_cosine_direction(), n) can give for the view
\* direction v: unit vectors of the upper hemisphere whose halfway vector with v
\* is on the grid
CosineSamples(n, v) ==
    {l \in {reflect(neg(v), hh) : hh \in UnitVecs} :
        dot(l, n) >= 0 /\ add(v, l) # <<0, 0, 0>>}

\* values of random(), in scalar units
RandomDraws == {0, 2500, 5000, 7500}

\* values of pdf_vndf_ggx, times 2*PI, in scalar units
PdfGgxValues == {4, 4000, 20000}

Pending == [done |-> FALSE]

Result(r) == [done |-> TRUE, res |-> r]

FnInit ==
    /\ out = Pending
    /\ \/ /\ fn = "HitRecord::set_face_normal"
          /\ inp \in [direction : SmallVecs, outward_normal : SmallVecs]
       \/ /\ fn = "CookTorrance::new"
          /\ inp \in [roughness : RoughnessArgs, metallic : MetallicArgs]
       \/ /\ fn = "Disney::new"
          /\ inp \in [roughness : RoughnessArgs, metallic : MetallicArgs]
       \/ /\ fn = "BlinnPhong::scatter"
          /\ \E n \in Normals, g \in Grid5 : \E d \in RayDirs(n) :
                inp = [normal |-> n, r_in |-> d, light_dir |-> unit_vector(g)]
       \/ /\ fn = "CookTorrance::scatter"
          /\ \E r \in {0, 50}, n \in Normals, h \in UnitVecs : \E d \in RayDirs(n) :
                inp = [self |-> CookTorrance_new(r, 0), normal |-> n, r_in |-> d, h |-> h]
       \/ /\ fn = "CookTorrance::scatter_importance"
          /\ \E r \in {0, 50}, n \in Normals, u \in RandomDraws, p \in PdfGgxValues :
             \E d \in RayDirs(n) :
                \/ /\ SampleSpecular(u)
                   /\ \E h \in UnitVecs :
                         inp = [self |-> CookTorrance_new(r, 0), normal |-> n, r_in |-> d,
                                u |-> u, h |-> h, lcos |-> n, pdf_ggx |-> p]
                \/ /\ ~SampleSpecular(u)
                   /\ \E l \in CosineSamples(n, neg(unit_vector(d))) :
                         inp = [self |-> CookTorrance_new(r, 0), normal |-> n, r_in |-> d,
                                u |-> u, h |-> n, lcos |-> l, pdf_ggx |-> p]
       \/ /\ fn = "Disney::scatter_importance"
          /\ \E r \in {0, 50}, n \in Normals, p \in PdfGgxValues :
             \E d \in RayDirs(n) :
             \E l \in CosineSamples(n, neg(unit_vector(d))) :
                inp = [self |-> Disney_new(r, 0), normal |-> n, r_in |-> d,
                       lcos |-> l, pdf_ggx |-> p]
       \/ /\ fn = "Disney::scatter"
          /\ \E n \in Normals : \E d \in RayDirs(n) :
                inp = [normal |-> n, r_in |-> d]

CallSetFaceNormal ==
    /\ fn = "HitRecord::set_face_normal" /\ ~out.done
    /\ out' = Result(set_face_normal(inp.direction, inp.outward_normal))
    /\ UNCHANGED <<fn, inp>>

CallCookTorranceNew ==
    /\ fn = "CookTorrance::new" /\ ~out.done
    /\ out' = Result(CookTorrance_new(inp.roughness, inp.metallic))
    /\ UNCHANGED <<fn, inp>>

CallDisneyNew ==
    /\ fn = "Disney::new" /\ ~out.done
    /\ out' = Result(Disney_new(inp.roughness, inp.metallic))
    /\ UNCHANGED <<fn, inp>>

CallBlinnPhongScatter ==
    /\ fn = "BlinnPhong::scatter" /\ ~out.done
    /\ out' = Result(BlinnPhong_scatter(inp.normal, inp.r_in, inp.light_dir))
    /\ UNCHANGED <<fn, inp>>

CallCookTorranceScatter ==
    /\ fn = "CookTorrance::scatter" /\ ~out.done
    /\ out' = Result(CookTorrance_scatter(inp.self, inp.normal, inp.r_in, inp.h))
    /\ UNCHANGED <<fn, inp>>

CallCookTorranceScatterImportance ==
    /\ fn = "CookTorrance::scatter_importance" /\ ~out.done
    /\ out' = Result(CookTorrance_scatter_importance(inp.self, inp.normal, inp.r_in,
                                                     inp.u, inp.h, inp.lcos, inp.pdf_ggx))
    /\ UNCHANGED <<fn, inp>>

CallDisneyScatterImportance ==
    /\ fn = "Disney::scatter_importance" /\ ~out.done
    /\ out' = Result(Disney_scatter_importance(inp.self, inp.normal, inp.r_in, inp.lcos))
    /\ UNCHANGED <<fn, inp>>

CallDisneyScatter ==
    /\ fn = "Disney::scatter" /\ ~out.done
    /\ out' = Result(Disney_scatter)
    /\ UNCHANGED <<fn, inp>>

(***************************************************************************)
(* main  (src/src/main.rs:144-167)                                         *)
(*                                                                         *)
(* One scanline at a time: a rayon parallel map over the columns, each     *)
(* closure call accumulating SAMPLES_PER_PIXEL samples into its own local  *)
(* pixel_color, then collect, then the sequential set_pixel loop.  A pool  *)
(* thread runs one closure call at a time, to completion.  The value       *)
(* ray_color returns for sample k of pixel (i, j) is SampleValue(i, j, k): *)
(* distinct pixels get distinct values, so a misplaced pixel shows.        *)
(***************************************************************************)
Columns == 0..(ImageWidth - 1)

Rows == 0..(ImageHeight - 1)

Pixels == Columns \X Rows

SampleValue(i, j, k) == ColorNew(i + 1, j + 1, k + 1, 1)

Running == {i \in Columns : task[i] = "running"}

AccTargetShared(i) == 0

\* the accumulator the closure for index i updates: its own pixel_color
AccTarget(i) == i


\* buffer.set_pixel(i, j, ...)
PixelIndex(i, j) == <<i, j>>

MainInit ==
    /\ row = ImageHeight - 1
    /\ phase = "map"
    /\ task = [i \in Columns |-> "idle"]
    /\ acc = [i \in Columns |-> ColorZero]
    /\ nsamp = [i \in Columns |-> 0]
    /\ samples = [i \in Columns |-> <<>>]
    /\ finishOrder = <<>>
    /\ collected = <<>>
    /\ wcol = 0
    /\ buffer = [p \in Pixels |-> ColorZero]
    /\ setCount = [p \in Pixels |-> 0]
    /\ actor = "main"

\* a pool thread picks up index i: let mut pixel_color = Color::new(0.0, 0.0, 0.0)
TaskStart(i) ==
    /\ phase = "map"
    /\ task[i] = "idle"
    /\ Cardinality(Running) < NumThreads
    /\ task' = [task EXCEPT ![i] = "running"]
    /\ acc' = [acc EXCEPT ![AccTarget(i)] = ColorZero]
    /\ actor' = i
    /\ UNCHANGED <<row, phase, nsamp, samples, finishOrder, collected, wcol, buffer, setCount>>

\* one iteration of the sample loop: pixel_color += ray_color(&r, &world, MAX_DEPTH)
TaskSample(i) ==
    /\ phase = "map"
    /\ task[i] = "running"
    /\ nsamp[i] < SamplesPerPixel
    /\ acc' = [acc EXCEPT ![AccTarget(i)] =
                  ColorAdd(acc[AccTarget(i)], SampleValue(i, row, nsamp[i]))]
    /\ samples' = [samples EXCEPT ![i] = Append(@, SampleValue(i, row, nsamp[i]))]
    /\ nsamp' = [nsamp EXCEPT ![i] = @ + 1]
    /\ actor' = i
    /\ UNCHANGED <<row, phase, task, finishOrder, collected, wcol, buffer, setCount>>

\* the closure returns pixel_color
TaskFinish(i) ==
    /\ phase = "map"
    /\ task[i] = "running"
    /\ nsamp[i] = SamplesPerPixel
    /\ task' = [task EXCEPT ![i] = "done"]
    /\ finishOrder' = Append(finishOrder, i)
    /\ actor' = i
    /\ UNCHANGED <<row, phase, acc, nsamp, samples, collected, wcol, buffer, setCount>>

\* .collect(): the Vec holds the closures' results in index order
Collect ==
    /\ phase = "map"
    /\ \A i \in Columns : task[i] = "done"
    /\ collected' = [i \in Columns |-> acc[AccTarget(i)]]
    /\ phase' = "write"
    /\ wcol' = 0
    /\ actor' = "main"
    /\ UNCHANGED <<row, task, acc, nsamp, samples, finishOrder, buffer, setCount>>

\* one iteration of the sequential loop: buffer.set_pixel(i, j, pixel_color / SPP)
WritePixel ==
    /\ phase = "write"
    /\ wcol < ImageWidth
    /\ buffer' = [buffer EXCEPT ![PixelIndex(wcol, row)] =
                     ColorDiv(collected[wcol], SamplesPerPixel)]
    /\ setCount' = [setCount EXCEPT ![PixelIndex(wcol, row)] = @ + 1]
    /\ wcol' = wcol + 1
    /\ actor' = "main"
    /\ UNCHANGED <<row, phase, task, acc, nsamp, samples, finishOrder, collected>>

\* the next scanline, or the end of the render loop
NextRow ==
    /\ phase = "write"
    /\ wcol = ImageWidth
    /\ actor' = "main"
    /\ IF row > 0
       THEN /\ row' = row - 1
            /\ phase' = "map"
            /\ task' = [i \in Columns |-> "idle"]
            /\ nsamp' = [i \in Columns |-> 0]
            /\ samples' = [i \in Columns |-> <<>>]
            /\ finishOrder' = <<>>
            /\ UNCHANGED <<acc, collected, wcol, buffer, setCount>>
       ELSE /\ phase' = "finished"
            /\ UNCHANGED <<row, task, acc, nsamp, samples, finishOrder, collected,
                           wcol, buffer, setCount>>

RcInit ==
    /\ \E d \in Dirs, depth \in (0 - 1)..MaxDepthBound :
          stack = <<Frame(d, depth, 0, 0, 0)>>
    /\ pc = "call"
    /\ retval = ColorZero
    /\ hitQueries = 0
    /\ scatterCalls = 0
    /\ randDraws = 0
    /\ path = <<>>
    /\ ending = [kind |-> "none", dir |-> <<0, 0, 0>>]

RcIdle ==
    /\ stack = <<>>
    /\ pc = "off"
    /\ retval = ColorZero
    /\ hitQueries = 0
    /\ scatterCalls = 0
    /\ randDraws = 0
    /\ path = <<>>
    /\ ending = [kind |-> "none", dir |-> <<0, 0, 0>>]

FnIdle ==
    /\ fn = "off"
    /\ inp = <<>>
    /\ out = Pending

MainIdle ==
    /\ row = 0
    /\ phase = "off"
    /\ task = <<>>
    /\ acc = <<>>
    /\ nsamp = <<>>
    /\ samples = <<>>
    /\ finishOrder = <<>>
    /\ collected = <<>>
    /\ wcol = 0
    /\ buffer = <<>>
    /\ setCount = <<>>
    /\ actor = "none"

Init == RcInit /\ FnIdle /\ MainIdle

Next ==
    \/ RcCutoff /\ UNCHANGED <<fnVars, mainVars>>
    \/ RcAbsorb /\ UNCHANGED <<fnVars, mainVars>>
    \/ RcMiss /\ UNCHANGED <<fnVars, mainVars>>
    \/ RcScatter /\ UNCHANGED <<fnVars, mainVars>>
    \/ RcReturn /\ UNCHANGED <<fnVars, mainVars>>
    \/ RcDone /\ UNCHANGED <<fnVars, mainVars>>

Spec == Init /\ [][Next]_vars

FnNext ==
    \/ CallSetFaceNormal /\ UNCHANGED <<rcVars, mainVars>>
    \/ CallCookTorranceNew /\ UNCHANGED <<rcVars, mainVars>>
    \/ CallDisneyNew /\ UNCHANGED <<rcVars, mainVars>>
    \/ CallBlinnPhongScatter /\ UNCHANGED <<rcVars, mainVars>>
    \/ CallCookTorranceScatter /\ UNCHANGED <<rcVars, mainVars>>
    \/ CallCookTorranceScatterImportance /\ UNCHANGED <<rcVars, mainVars>>
    \/ CallDisneyScatterImportance /\ UNCHANGED <<rcVars, mainVars>>
    \/ CallDisneyScatter /\ UNCHANGED <<rcVars, mainVars>>

\* the pure functions, each applied once to inputs drawn at Init
FnSpecInit == RcIdle /\ FnInit /\ MainIdle

FnSpec == FnSpecInit /\ [][FnNext]_vars

MainNext ==
    \/ \E i \in Columns : TaskStart(i) /\ UNCHANGED <<rcVars, fnVars>>
    \/ \E i \in Columns : TaskSample(i) /\ UNCHANGED <<rcVars, fnVars>>
    \/ \E i \in Columns : TaskFinish(i) /\ UNCHANGED <<rcVars, fnVars>>
    \/ Collect /\ UNCHANGED <<rcVars, fnVars>>
    \/ WritePixel /\ UNCHANGED <<rcVars, fnVars>>
    \/ NextRow /\ UNCHANGED <<rcVars, fnVars>>

MainSpecInit == RcIdle /\ FnIdle /\ MainInit

\* the render loop of main
MainSpec == MainSpecInit /\ [][MainNext]_vars

\* ray_color is synchronous code: a call that can take a step takes it
FairSpec == Spec /\ WF_vars(Next)

(***************************************************************************)
(* Claims about ray_color                                                  *)
(***************************************************************************)
Returned == pc \in {"ret", "done"}

Max0(n) == IF n < 0 THEN 0 ELSE n

\* the gradient (1-t)*(1,1,1) + t*(0.5,0.7,1.0), t = 0.5*(unit(dir).y + 1), in
\* closed form: (1 - t/2, 1 - 3t/10, 1) over the common denominator 20*UnitLen
ExpectedGradient(dir) ==
    LET y == unit_vector(dir)[2]
    IN  ColorNew(5 * (3 * UnitLen - y), 17 * UnitLen - 3 * y,
                 20 * UnitLen, 20 * UnitLen)

\* C1: a call of ray_color with depth <= 0 returns exactly Color(0,0,0) and, from
\* its entry to its return, queries the scene zero times, invokes no material and
\* draws no random number.
C1_DepthCutoff ==
    (Returned /\ Top.depth <= 0) =>
        /\ retval = ColorZero
        /\ hitQueries = Top.hq0
        /\ scatterCalls = Top.sc0
        /\ randDraws = Top.rd0

C1_Witness == pc = "done" /\ Top.depth = 0 /\ Top.ev = "cutoff"

\* C2: a call of ray_color with positive depth whose world.hit returned false
\* returns exactly the background gradient of its ray's direction, and between its
\* entry and its return one scene query is made, no material is invoked and no
\* random number is drawn.
C2_Miss ==
    (Returned /\ Top.depth > 0 /\ Top.ev = "miss") =>
        /\ ColorEq(retval, ExpectedGradient(Top.dir))
        /\ hitQueries = Top.hq0 + 1
        /\ scatterCalls = Top.sc0
        /\ randDraws = Top.rd0

C2_Witness ==
    /\ Returned
    /\ Top.ev = "miss"
    /\ Top.dir = <<0, -2, 0>>
    /\ Len(stack) > 1
    /\ randDraws > 0

\* the explicit loop: a running throughput product over the accepted scatters,
\* in path order, times the value of the path's last vertex
RECURSIVE Throughput(_, _)
Throughput(atts, acc0) ==
    IF atts = <<>> THEN acc0
    ELSE Throughput(Tail(atts), ColorMul(acc0, Head(atts)))

TerminalValue ==
    IF ending.kind = "miss" THEN ExpectedGradient(ending.dir) ELSE ColorZero

IterativeEstimate == ColorMul(Throughput(path, ColorNew(1, 1, 1, 1)), TerminalValue)

\* C3: the value the outermost call of ray_color returns equals the value of the
\* iterative loop: the product of the attenuations of the accepted scatters along
\* the path, times the background gradient if the path ended on a miss and times
\* zero if it ended on an absorption or on the exhausted depth.
C3_RecursionIsLoop == (pc = "done") => retval = IterativeEstimate

C3_Witness ==
    /\ pc = "done"
    /\ Len(path) >= 2
    /\ path[1] # path[2]
    /\ ending.kind = "miss"

C4_Bounds ==
    /\ hitQueries <= Max0(stack[1].depth)
    /\ scatterCalls <= Max0(stack[1].depth)
    /\ Len(stack) <= Max0(stack[1].depth) + 1
    /\ \A k \in 2..Len(stack) : stack[k].depth = stack[k - 1].depth - 1

\* C4: every call of ray_color with initial depth d terminates; each recursive
\* call's depth is its caller's depth minus 1; at most d scene queries and at most
\* d scatter invocations are made (none when d <= 0).
C4_BoundedRecursion == []C4_Bounds /\ <>(pc = "done")

C4_Witness ==
    /\ pc = "done"
    /\ stack[1].depth = MaxDepthBound
    /\ hitQueries = MaxDepthBound
    /\ scatterCalls = MaxDepthBound
    /\ ending.kind = "cutoff"

(***************************************************************************)
(* Claims about set_face_normal and the materials                          *)
(***************************************************************************)
Called(f) == fn = f /\ out.done

Accepted(f) == Called(f) /\ out.res.accepted

FaceNormalShape ==
    /\ out.res.front_face = (dot(inp.direction, inp.outward_normal) < 0)
    /\ out.res.normal = IF dot(inp.direction, inp.outward_normal) < 0
                        THEN inp.outward_normal
                        ELSE neg(inp.outward_normal)

\* C5 as stated: after set_face_normal the stored normal has
\* dot(direction, normal) < 0 for every direction and outward normal, front_face
\* is true exactly when dot(direction, outward_normal) < 0, and the normal is the
\* outward normal then and its negation otherwise.
C5_Original ==
    Called("HitRecord::set_face_normal") =>
        /\ dot(inp.direction, out.res.normal) < 0
        /\ FaceNormalShape

\* C5 as amended: after set_face_normal the stored normal has
\* dot(direction, normal) <= 0, with equality exactly when the direction is
\* perpendicular to the outward normal; front_face and the normal are as stated.
C5_FaceNormal ==
    Called("HitRecord::set_face_normal") =>
        /\ dot(inp.direction, out.res.normal) <= 0
        /\ (dot(inp.direction, out.res.normal) = 0)
               = (dot(inp.direction, inp.outward_normal) = 0)
        /\ FaceNormalShape

C5_Witness ==
    /\ Called("HitRecord::set_face_normal")
    /\ dot(inp.direction, inp.outward_normal) > 0
    /\ ~out.res.front_face
    /\ out.res.normal = neg(inp.outward_normal)

\* C6: whenever BlinnPhong::scatter, CookTorrance::scatter, Disney::scatter
\* return true or CookTorrance/Disney::scatter_importance return Some, the
\* scattered direction l has dot(rec.normal, l) >= 0.
C6_NeverBelowSurface ==
    \A f \in {"BlinnPhong::scatter", "CookTorrance::scatter", "Disney::scatter",
              "CookTorrance::scatter_importance", "Disney::scatter_importance"} :
        Accepted(f) => dot(inp.normal, out.res.l) >= 0

\* the pdfs of the two lobes for the returned direction, times 2*PI
PdfSpecularOf == inp.pdf_ggx

PdfDiffuseOf == 2 * smax(sdot(inp.normal, out.res.l), EPS)

\* C8: for CookTorrance and Disney, an accepted scatter_importance sample
\* returns the pdf 0.5*pdf_specular + 0.5*pdf_diffuse, and the weight applied is
\* pdf_chosen / (pdf_specular + pdf_diffuse), pdf_chosen being the pdf of the lobe
\* that was sampled.
C8_MisPolicy ==
    \A f \in {"CookTorrance::scatter_importance", "Disney::scatter_importance"} :
        Accepted(f) =>
            LET chosen == IF out.res.lobe = "specular" THEN PdfSpecularOf
                          ELSE PdfDiffuseOf
            IN  /\ ~out.res.pdf.floored
                /\ 2 * out.res.pdf.raw = PdfSpecularOf + PdfDiffuseOf
                /\ out.res.weight.num * (PdfSpecularOf + PdfDiffuseOf)
                       = chosen * out.res.weight.den

\* C9: on every accepted path of CookTorrance::scatter,
\* CookTorrance::scatter_importance and Disney::scatter_importance, every
\* dot-product term used in a denominator is at least 1e-4 and every divisor is
\* strictly positive.
C9_GuardedDivisors ==
    \A f \in {"CookTorrance::scatter", "CookTorrance::scatter_importance",
              "Disney::scatter_importance"} :
        Accepted(f) =>
            /\ \A t \in out.res.denomTerms : t >= EPS
            /\ \A d \in out.res.divisors : d > 0

\* C10: CookTorrance::new and Disney::new hold a roughness of at least 0.05
\* whatever the argument (CookTorrance at most 1.0, metallic in [0,1]), and no
\* accepted scatter evaluates the GGX distribution with a roughness below 0.05.
C10_RoughnessFloor ==
    /\ \A f \in {"CookTorrance::new", "Disney::new"} :
          Called(f) => out.res.roughness >= 5
    /\ Called("CookTorrance::new") =>
          /\ out.res.roughness <= 100
          /\ out.res.metallic \in 0..100
    /\ \A f \in {"CookTorrance::scatter", "CookTorrance::scatter_importance",
                 "Disney::scatter_importance"} :
          Accepted(f) => out.res.ggxRoughness >= 5

(***************************************************************************)
(* Claims about main                                                       *)
(***************************************************************************)
RECURSIVE SumOfSamples(_, _, _)
SumOfSamples(i, j, k) ==
    IF k = 0 THEN ColorZero
    ELSE ColorAdd(SumOfSamples(i, j, k - 1), SampleValue(i, j, k - 1))

ExpectedPixel(i, j) == ColorDiv(SumOfSamples(i, j, SamplesPerPixel), SamplesPerPixel)

\* rows whose sequential loop has set column i already
Written(i, j) == j > row \/ (j = row /\ phase = "write" /\ i < wcol) \/ phase = "finished"

C7_State ==
    /\ \A p \in Pixels :
          /\ setCount[p] = IF Written(p[1], p[2]) THEN 1 ELSE 0
          /\ Written(p[1], p[2]) => ColorEq(buffer[p], ExpectedPixel(p[1], p[2]))
    /\ phase = "write" =>
          \A i \in Columns : ColorEq(collected[i], SumOfSamples(i, row, SamplesPerPixel))

C7_Step ==
    /\ \A i \in Columns : acc'[i] # acc[i] => (actor' = i /\ task'[i] = "running")
    /\ buffer' # buffer =>
          /\ actor' = "main"
          /\ phase = "write"
          /\ \A i \in Columns : task[i] = "done"

\* C7: in main, the accumulator of column i changes only in a step of the closure
\* evaluating index i; the buffer changes only in the sequential loop, after every
\* closure of the row is done; and every pixel (i, j) is set exactly once, to the
\* sum of its SAMPLES_PER_PIXEL samples divided by SAMPLES_PER_PIXEL, at column i,
\* whatever the order in which the closures finish.
C7_PixelOwnership == []C7_State /\ [][C7_Step]_vars

C7_Witness ==
    /\ phase = "finished"
    /\ finishOrder = <<2, 0, 1>>
    /\ \A p \in Pixels : setCount[p] = 1

====
